---- MODULE Spec2Model ----
(***************************************************************************)
(* Model of aimakerspace/text_utils.py: TextFileLoader,                    *)
(* CharacterTextSplitter and YouTubeLoader.                                *)
(*                                                                         *)
(* Strings are sequences of one-character (or one-token) strings, so that  *)
(* slicing, searching and concatenation are computed, not assumed.         *)
(* Three specifications share the variables: SpecSplitter, SpecFiles and   *)
(* SpecYouTube; each one drives one class and leaves the others at rest.   *)
(***************************************************************************)
EXTENDS Integers, Sequences, FiniteSets, TLC

VARIABLES
    \* CharacterTextSplitter
    splitter,      \* the constructed object: None or [chunk_size, chunk_overlap]
    splitArgs,     \* the arguments of the constructor call, None before it
    splitErr,      \* exception raised by the last call, "none" if none
    text,          \* the argument of the last split call
    chunks,        \* the value returned by the last split call, None if none
    \* TextFileLoader
    fsPath,        \* what self.path names on disk
    fsDocuments,   \* self.documents
    fsBefore,      \* self.documents when the last load was entered
    fsErr,         \* exception raised by the last load, "none" if none
    fsCalls,       \* number of load calls made so far
    \* YouTubeLoader
    ytLoader,      \* the constructed object, None when there is none
    ytUrl,         \* the url passed to the constructor, None before the call
    ytErr,         \* exception raised by the last call, <<>> if none
    ytState,       \* position of the load in progress
    ytEntry,       \* the method the caller entered: "load" or "load_documents"
    ytTranscript,  \* local variable transcript of load
    ytBefore,      \* self.documents when the last load was entered
    ytReturned,    \* value returned by the last load_documents, None otherwise
    ytCalls,       \* number of load calls made so far
    netCalls       \* outbound requests of the call in progress or last made:
                   \* what was requested and whether an answer came back

splitVars == <<splitter, splitArgs, splitErr, text, chunks>>
fsVars == <<fsPath, fsDocuments, fsBefore, fsErr, fsCalls>>
ytVars == <<ytLoader, ytUrl, ytErr, ytState, ytEntry, ytTranscript, ytBefore, ytReturned,
            ytCalls, netCalls>>
vars == <<splitVars, fsVars, ytVars>>

\* Python's None and a value that is present; The(o) is the value of Some(v).
None == <<>>
Some(v) == <<v>>
The(o) == o[1]

Min(a, b) == IF a < b THEN a ELSE b
Max(a, b) == IF a > b THEN a ELSE b

\* ------------------------------------------------------------------------
\* Bounds
\* ------------------------------------------------------------------------
MaxLen == 5        \* longest text handed to split
MaxSize == 4       \* largest chunk_size / chunk_overlap tried
MaxNeg == 2        \* chunk_size / chunk_overlap go down to -MaxNeg
MaxDirs == 2       \* directories visited by os.walk
MaxFiles == 2      \* files listed in one directory
MaxLoads == 2      \* load calls on one loader object
MaxTail == 1       \* characters of a url after its last prefix literal
MaxSnippets == 2   \* segments of a transcript

\* ------------------------------------------------------------------------
\* Python helpers
\* ------------------------------------------------------------------------

\* An index of a slice, as Python normalises it for a sequence of length n.
PyIndex(n, i) == IF i < 0 THEN Max(i + n, 0) ELSE Min(i, n)

\* s[lo:hi]
PySlice(s, lo, hi) ==
    LET a == PyIndex(Len(s), lo)
        b == PyIndex(Len(s), hi)
    IN  IF b <= a THEN <<>> ELSE SubSeq(s, a + 1, b)

\* ------------------------------------------------------------------------
\* CharacterTextSplitter
\* ------------------------------------------------------------------------
Chars == {"a", "b"}
Texts == UNION {[1..n -> Chars] : n \in 0..MaxLen}
Sizes == (0 - MaxNeg)..MaxSize

\* A bug: the assertion written with >= lets chunk_size = chunk_overlap through.
ConfigAcceptedWeak(chunk_size, chunk_overlap) == chunk_size >= chunk_overlap

\* The condition asserted by __init__.
ConfigAccepted(chunk_size, chunk_overlap) == chunk_size > chunk_overlap

\* A bug: the window advances by a whole chunk, ignoring the overlap.
StrideNoOverlap(chunk_size, chunk_overlap) == chunk_size

\* The step of the range in split.
Stride(chunk_size, chunk_overlap) == chunk_size - chunk_overlap

\* The body of the for loop of split, entered with the loop variable at i:
\* range(0, len(text), step) with step > 0 yields i while i < len(text).
RECURSIVE SplitLoop(_, _, _, _, _)
SplitLoop(t, i, chunk_size, step, acc) ==
    IF i < Len(t)
    THEN SplitLoop(t, i + step, chunk_size, step,
                   Append(acc, PySlice(t, i, i + chunk_size)))
    ELSE acc

\* split(text): a range with step 0 raises, one with a negative step and
\* start 0 <= stop is empty.
Split(t, chunk_size, chunk_overlap) ==
    LET step == Stride(chunk_size, chunk_overlap)
    IN  IF step = 0 THEN [raised |-> "ValueError", value |-> None]
        ELSE IF step < 0 THEN [raised |-> "none", value |-> Some(<<>>)]
        ELSE [raised |-> "none",
              value |-> Some(SplitLoop(t, 0, chunk_size, step, <<>>))]

\* CharacterTextSplitter(chunk_size, chunk_overlap)
NewSplitter(chunk_size, chunk_overlap) ==
    /\ splitArgs = None
    /\ splitArgs' = Some([chunk_size |-> chunk_size, chunk_overlap |-> chunk_overlap])
    /\ IF ConfigAccepted(chunk_size, chunk_overlap)
       THEN /\ splitter' = Some([chunk_size |-> chunk_size,
                                   chunk_overlap |-> chunk_overlap])
            /\ splitErr' = "none"
       ELSE /\ splitter' = None
            /\ splitErr' = "AssertionError"
    /\ UNCHANGED <<text, chunks>>
    /\ UNCHANGED <<fsVars, ytVars>>

\* splitter.split(t)
CallSplit(t) ==
    /\ splitter # None
    /\ text' = t
    /\ LET r == Split(t, The(splitter).chunk_size, The(splitter).chunk_overlap)
       IN  /\ chunks' = r.value
           /\ splitErr' = r.raised
    /\ UNCHANGED <<splitter, splitArgs>>
    /\ UNCHANGED <<fsVars, ytVars>>

SplitterNext ==
    \/ \E cs \in Sizes, co \in Sizes : NewSplitter(cs, co)
    \/ \E t \in Texts : CallSplit(t)

\* ------------------------------------------------------------------------
\* TextFileLoader
\* ------------------------------------------------------------------------

\* A file on disk: its extension and whether open/read with the loader's
\* encoding succeeds.  A file that is not .txt is never opened.
Files == {[ext |-> "txt", ok |-> TRUE], [ext |-> "txt", ok |-> FALSE],
          [ext |-> "md", ok |-> TRUE]}
Listings == UNION {[1..n -> Files] : n \in 0..MaxFiles}

\* What os.walk yields for a directory: the files of the root and of every
\* directory below it, in the order of the walk.
Walks == UNION {[1..n -> Listings] : n \in 1..MaxDirs}

FsPaths == {[kind |-> "missing"]}
           \cup {[kind |-> "file", file |-> f] : f \in Files}
           \cup {[kind |-> "dir", walk |-> w] : w \in Walks}

\* f.read(): the content of a file is identified by where the file is.
Content(d, j) == <<d, j>>

\* The inner loop of load_directory over the files of directory d, from file j
\* on: the documents so far and the exception that ended the loop.
RECURSIVE ReadFiles(_, _, _, _)
ReadFiles(listing, d, j, docs) ==
    IF j > Len(listing) THEN [docs |-> docs, err |-> "none"]
    ELSE IF listing[j].ext # "txt" THEN ReadFiles(listing, d, j + 1, docs)
    ELSE IF ~listing[j].ok THEN [docs |-> docs, err |-> "UnicodeDecodeError"]
    ELSE ReadFiles(listing, d, j + 1, Append(docs, Content(d, j)))

\* load_directory: the outer loop over os.walk, from directory d on.
RECURSIVE LoadDirectory(_, _, _)
LoadDirectory(walk, d, docs) ==
    IF d > Len(walk) THEN [docs |-> docs, err |-> "none"]
    ELSE LET r == ReadFiles(walk[d], d, 1, docs)
         IN  IF r.err # "none" THEN r ELSE LoadDirectory(walk, d + 1, r.docs)

\* load_file
LoadFile(file, docs) ==
    IF file.ok THEN [docs |-> Append(docs, Content(0, 0)), err |-> "none"]
    ELSE [docs |-> docs, err |-> "UnicodeDecodeError"]

\* load: self.documents afterwards and the exception raised.
Load(path, docs) ==
    IF path.kind = "dir" THEN LoadDirectory(path.walk, 1, docs)
    ELSE IF path.kind = "file" /\ path.file.ext = "txt" THEN LoadFile(path.file, docs)
    ELSE [docs |-> docs, err |-> "ValueError"]

\* loader.load(), also reached through load_documents, which then returns
\* self.documents
FsLoad ==
    /\ fsCalls < MaxLoads
    /\ fsCalls' = fsCalls + 1
    /\ fsBefore' = fsDocuments
    /\ LET r == Load(fsPath, fsDocuments)
       IN  /\ fsDocuments' = r.docs
           /\ fsErr' = r.err
    /\ UNCHANGED fsPath
    /\ UNCHANGED <<splitVars, ytVars>>

FilesNext == FsLoad

\* ------------------------------------------------------------------------
\* YouTubeLoader: _extract_video_id
\* ------------------------------------------------------------------------

\* The literal prefixes of the three patterns, in the order of their
\* alternatives.
LitWatch == <<"y","o","u","t","u","b","e",".","c","o","m","/","w","a","t","c","h","?","v","=">>
LitShort == <<"y","o","u","t","u",".","b","e","/">>
LitEmbed == <<"y","o","u","t","u","b","e",".","c","o","m","/","e","m","b","e","d","/">>
LitV == <<"y","o","u","t","u","b","e",".","c","o","m","/","v","/">>

Patterns == << <<LitWatch, LitShort, LitEmbed>>, <<LitV>>, <<LitEmbed>> >>

\* The characters the capturing group [^&\n?#]+ stops at.
Terminators == {"&", "\n", "?", "#"}

\* The urls tried: something or nothing in front, then no prefix literal,
\* one, or one inside the identifier of another, then up to MaxTail
\* characters that belong to an identifier ("a") or end it ("&").
UrlFronts == {<<>>, <<"a">>}
UrlHeads == {<<>>, LitWatch, LitShort, LitEmbed, LitV, LitV \o LitWatch}
UrlTails == UNION {[1..n -> {"a", "&"}] : n \in 0..MaxTail}
Urls == {f \o h \o t : f \in UrlFronts, h \in UrlHeads, t \in UrlTails}

\* The literal lit stands in url at position p.
HasAt(url, p, lit) ==
    /\ p + Len(lit) - 1 <= Len(url)
    /\ SubSeq(url, p, p + Len(lit) - 1) = lit

\* A bug: the group written [^&\n?#]* also matches the empty identifier.
GroupMatchesEmpty(url, q) == TRUE

\* The group [^&\n?#]+ matches at position q: one character at least.
GroupMatches(url, q) == q <= Len(url) /\ url[q] \notin Terminators

\* The end of the greedy group that starts at position q.
RECURSIVE GroupEnd(_, _)
GroupEnd(url, q) ==
    IF q <= Len(url) /\ url[q] \notin Terminators THEN GroupEnd(url, q + 1) ELSE q - 1

\* Matching one pattern at position p: the alternatives from the a-th on.
RECURSIVE MatchAt(_, _, _, _)
MatchAt(url, p, lits, a) ==
    IF a > Len(lits) THEN None
    ELSE IF HasAt(url, p, lits[a]) /\ GroupMatches(url, p + Len(lits[a]))
    THEN LET q == p + Len(lits[a])
         IN  Some(IF GroupEnd(url, q) < q THEN <<>> ELSE SubSeq(url, q, GroupEnd(url, q)))
    ELSE MatchAt(url, p, lits, a + 1)

\* re.search(pattern, url): the match at the leftmost position, from p on.
RECURSIVE Search(_, _, _)
Search(url, lits, p) ==
    IF p > Len(url) + 1 THEN None
    ELSE IF MatchAt(url, p, lits, 1) # None THEN MatchAt(url, p, lits, 1)
    ELSE Search(url, lits, p + 1)

\* The loop over the patterns, from the i-th on; None stands for the
\* ValueError of the last line.
RECURSIVE ExtractFrom(_, _)
ExtractFrom(url, i) ==
    IF i > Len(Patterns) THEN None
    ELSE IF Search(url, Patterns[i], 1) # None THEN Search(url, Patterns[i], 1)
    ELSE ExtractFrom(url, i + 1)

ExtractVideoId(url) == ExtractFrom(url, 1)

\* ------------------------------------------------------------------------
\* YouTubeLoader: the collaborators
\* ------------------------------------------------------------------------

\* A Python dict is the set of its <<key, value>> items.
DictGet(d, key, default) ==
    IF \E it \in d : it[1] = key
    THEN (CHOOSE it \in d : it[1] = key)[2]
    ELSE default

\* What requests.get(...), raise_for_status() and json() come to: an
\* exception, or the value the body parses to, a JSON object or not.
MetaResponses ==
    {[kind |-> "raise", exc |-> e, json |-> [type |-> "dict", items |-> {}]] :
        e \in {"ConnectionError", "HTTPError", "JSONDecodeError"}}
    \cup
    {[kind |-> "json", exc |-> "none", json |-> v] :
        v \in {[type |-> "dict",
                items |-> {<<"title", "T">>, <<"author_name", "A">>,
                           <<"provider_name", "YouTube">>}],
               [type |-> "dict", items |-> {}],
               [type |-> "list", items |-> {}]}}

\* What api.fetch comes to: an exception, or the snippets of a transcript,
\* none or MaxSnippets of them.
FetchResults ==
    {[kind |-> "raise", snippets |-> <<>>]}
    \cup {[kind |-> "ok", snippets |-> [i \in 1..n |-> "seg"]] : n \in {0, MaxSnippets}}

\* An entry of netCalls: api.fetch with languages=['en'] ("fetch_en"),
\* api.fetch without ("fetch_any") or the oEmbed request ("oembed").
Call(req, ok) == [req |-> req, ok |-> ok]

\* " ".join(segments)
RECURSIVE Join(_)
Join(segments) ==
    IF segments = <<>> THEN <<>>
    ELSE IF Len(segments) = 1 THEN <<segments[1]>>
    ELSE <<segments[1], " ">> \o Join(Tail(segments))

\* ------------------------------------------------------------------------
\* YouTubeLoader: the methods
\* ------------------------------------------------------------------------

\* A bug: the except branch returns an empty record.
VideoMetadataNoPlaceholder(resp) ==
    IF resp.kind = "raise" THEN [type |-> "dict", items |-> {}] ELSE resp.json

\* _get_video_metadata: the parsed body, or the placeholder when anything in
\* the try block raised.
VideoMetadata(resp) ==
    IF resp.kind = "raise"
    THEN [type |-> "dict",
          items |-> {<<"title", "Unknown">>, <<"author_name", "Unknown">>,
                     <<"provider_name", "YouTube">>}]
    ELSE resp.json

\* A bug: a failed fallback is swallowed and an empty transcript returned.
TranscriptSwallowed(en, any) ==
    IF en.kind = "ok"
    THEN [raised |-> FALSE, value |-> Join(en.snippets),
          calls |-> <<Call("fetch_en", TRUE)>>]
    ELSE IF any.kind = "ok"
    THEN [raised |-> FALSE, value |-> Join(any.snippets),
          calls |-> <<Call("fetch_en", FALSE), Call("fetch_any", TRUE)>>]
    ELSE [raised |-> FALSE, value |-> <<>>,
          calls |-> <<Call("fetch_en", FALSE), Call("fetch_any", FALSE)>>]

\* _get_transcript, en and any being what the two fetches come to: the
\* joined text or the ValueError, and the requests issued.
Transcript(en, any) ==
    IF en.kind = "ok"
    THEN [raised |-> FALSE, value |-> Join(en.snippets),
          calls |-> <<Call("fetch_en", TRUE)>>]
    ELSE IF any.kind = "ok"
    THEN [raised |-> FALSE, value |-> Join(any.snippets),
          calls |-> <<Call("fetch_en", FALSE), Call("fetch_any", TRUE)>>]
    ELSE [raised |-> TRUE, value |-> <<>>,
          calls |-> <<Call("fetch_en", FALSE), Call("fetch_any", FALSE)>>]

\* The formatted document of load.
Document(metadata, video_id, url, transcript) ==
    <<"Title: ", DictGet(metadata.items, "title", "Unknown"),
      "\nAuthor: ", DictGet(metadata.items, "author_name", "Unknown"),
      "\nVideo ID: ">> \o video_id \o <<"\nURL: ">> \o url
      \o <<"\n\nTranscript:\n">> \o transcript

\* A bug: the metadata is fetched before the transcript.
LoadOrderMetadataFirst(include_metadata) ==
    IF include_metadata THEN <<"GetMetadata", "GetTranscript", "Assemble">>
    ELSE <<"GetTranscript", "Assemble">>

\* The statements of the try block of load, in order.
LoadOrder(include_metadata) ==
    IF include_metadata THEN <<"GetTranscript", "GetMetadata", "Assemble">>
    ELSE <<"GetTranscript", "Assemble">>

\* The statement after statement st.
StepAfter(st, include_metadata) ==
    LET order == LoadOrder(include_metadata)
        i == CHOOSE j \in 1..Len(order) : order[j] = st
    IN  order[i + 1]

Idle == {"IdentifierExtracted", "Assembled", "Failed"}

\* YouTubeLoader(url, include_metadata)
NewYouTubeLoader(url, include_metadata) ==
    /\ ytState = "Uninitialized"
    /\ ytUrl' = Some(url)
    /\ IF ExtractVideoId(url) # None
       THEN /\ ytLoader' = Some([url |-> url, include_metadata |-> include_metadata,
                                 documents |-> <<>>,
                                 metadata |-> [type |-> "dict", items |-> {}],
                                 video_id |-> The(ExtractVideoId(url))])
            /\ ytState' = "IdentifierExtracted"
            /\ ytErr' = <<>>
       ELSE /\ ytLoader' = None
            /\ ytState' = "Failed"
            /\ ytErr' = <<"ValueError", "Could not extract video ID from URL">>
    /\ UNCHANGED <<ytEntry, ytTranscript, ytBefore, ytReturned, ytCalls, netCalls>>
    /\ UNCHANGED <<splitVars, fsVars>>

\* loader.load() or loader.load_documents() is entered.
BeginLoad(entry) ==
    /\ ytLoader # None
    /\ ytState \in Idle
    /\ ytCalls < MaxLoads
    /\ ytCalls' = ytCalls + 1
    /\ ytEntry' = entry
    /\ ytState' = LoadOrder(The(ytLoader).include_metadata)[1]
    /\ ytBefore' = The(ytLoader).documents
    /\ ytErr' = <<>>
    /\ ytReturned' = None
    /\ ytTranscript' = <<>>
    /\ netCalls' = <<>>
    /\ UNCHANGED <<ytLoader, ytUrl>>
    /\ UNCHANGED <<splitVars, fsVars>>

\* transcript = self._get_transcript()
GetTranscript(en, any) ==
    /\ ytState = "GetTranscript"
    /\ LET r == Transcript(en, any)
       IN  /\ netCalls' = netCalls \o r.calls
           /\ IF r.raised
              THEN /\ ytState' = "Failed"
                   /\ ytErr' = <<"ValueError", "Failed to load YouTube video",
                                 "Could not retrieve transcript for video">>
                   /\ UNCHANGED ytTranscript
              ELSE /\ ytState' = StepAfter("GetTranscript", The(ytLoader).include_metadata)
                   /\ ytTranscript' = r.value
                   /\ UNCHANGED ytErr
    /\ UNCHANGED <<ytLoader, ytUrl, ytEntry, ytBefore, ytReturned, ytCalls>>
    /\ UNCHANGED <<splitVars, fsVars>>

\* self.metadata = self._get_video_metadata()
GetMetadata(resp) ==
    /\ ytState = "GetMetadata"
    /\ netCalls' = Append(netCalls, Call("oembed", resp.kind # "raise"))
    /\ ytLoader' = Some([The(ytLoader) EXCEPT !.metadata = VideoMetadata(resp)])
    /\ ytState' = StepAfter("GetMetadata", The(ytLoader).include_metadata)
    /\ UNCHANGED <<ytUrl, ytErr, ytEntry, ytTranscript, ytBefore, ytReturned, ytCalls>>
    /\ UNCHANGED <<splitVars, fsVars>>

\* The document is built and appended; load_documents returns self.documents.
\* self.metadata.get raises on a value that is not a dict.
Assemble ==
    /\ ytState = "Assemble"
    /\ LET l == The(ytLoader)
       IN  IF l.include_metadata /\ l.metadata.type # "dict"
           THEN /\ ytState' = "Failed"
                /\ ytErr' = <<"ValueError", "Failed to load YouTube video",
                              "AttributeError">>
                /\ UNCHANGED <<ytLoader, ytReturned>>
           ELSE LET document == IF l.include_metadata
                                THEN Document(l.metadata, l.video_id, l.url, ytTranscript)
                                ELSE ytTranscript
                    docs == Append(l.documents, document)
                IN  /\ ytLoader' = Some([l EXCEPT !.documents = docs])
                    /\ ytState' = "Assembled"
                    /\ ytReturned' = IF ytEntry = "load_documents" THEN Some(docs) ELSE None
                    /\ UNCHANGED ytErr
    /\ UNCHANGED <<ytUrl, ytEntry, ytTranscript, ytBefore, ytCalls, netCalls>>
    /\ UNCHANGED <<splitVars, fsVars>>

YouTubeNext ==
    \/ \E url \in Urls, im \in BOOLEAN : NewYouTubeLoader(url, im)
    \/ \E entry \in {"load", "load_documents"} : BeginLoad(entry)
    \/ \E en \in FetchResults, any \in FetchResults : GetTranscript(en, any)
    \/ \E resp \in MetaResponses : GetMetadata(resp)
    \/ Assemble

\* ------------------------------------------------------------------------
\* Specifications
\* ------------------------------------------------------------------------
\* No splitter constructed, no split called.
SplitterStart ==
    /\ splitter = None
    /\ splitArgs = None
    /\ splitErr = "none"
    /\ text = <<>>
    /\ chunks = None

\* TextFileLoader(path), for the path given.
FilesStart(path) ==
    /\ fsPath = path
    /\ fsDocuments = <<>>
    /\ fsBefore = <<>>
    /\ fsErr = "none"
    /\ fsCalls = 0

\* No YouTubeLoader constructed.
YouTubeStart ==
    /\ ytLoader = None
    /\ ytUrl = None
    /\ ytErr = <<>>
    /\ ytState = "Uninitialized"
    /\ ytEntry = "none"
    /\ ytTranscript = <<>>
    /\ ytBefore = <<>>
    /\ ytReturned = None
    /\ ytCalls = 0
    /\ netCalls = <<>>

\* Nothing constructed yet; the TextFileLoader is left alone.
Init == SplitterStart /\ FilesStart([kind |-> "missing"]) /\ YouTubeStart

\* A TextFileLoader constructed on any of the paths.
InitFiles ==
    \E path \in FsPaths : SplitterStart /\ FilesStart(path) /\ YouTubeStart

SpecSplitter == Init /\ [][SplitterNext]_vars
SpecFiles == InitFiles /\ [][FilesNext]_vars
SpecYouTube == Init /\ [][YouTubeNext]_vars

\* ------------------------------------------------------------------------
\* Properties of CharacterTextSplitter
\* ------------------------------------------------------------------------
CeilDiv(a, b) == (a + b - 1) \div b

\* A configuration as the data model of the specification has it.
ValidConfig(c) == c.chunk_size > c.chunk_overlap /\ c.chunk_overlap >= 0

SplitDone == splitter # None /\ chunks # None

\* The character indices (from 0) of chunk k (from 0) of the last split.
Span(k) ==
    LET c == The(splitter)
        start == k * (c.chunk_size - c.chunk_overlap)
    IN  {start + j : j \in 0..(Len(The(chunks)[k + 1]) - 1)}

\* C1: for a valid configuration split returns ceil(len(text)/stride) chunks,
\* stride = chunk_size - chunk_overlap; the last chunk is the first whose start
\* is >= len(text) - stride; chunk k is text[k*stride : k*stride + chunk_size]
\* clipped to the end of the text; the empty text gives no chunk.
SplitCountAndContents ==
    (SplitDone /\ ValidConfig(The(splitter))) =>
        LET c == The(splitter)
            stride == c.chunk_size - c.chunk_overlap
            cs == The(chunks)
            n == Len(text)
        IN  /\ Len(cs) = CeilDiv(n, stride)
            /\ (n = 0) => (cs = <<>>)
            /\ \A k \in 0..(Len(cs) - 1) :
                   LET start == k * stride
                       len == Min(c.chunk_size, n - start)
                   IN  /\ start < n
                       /\ (start >= n - stride) <=> (k = Len(cs) - 1)
                       /\ Len(cs[k + 1]) = len
                       /\ \A j \in 1..len : cs[k + 1][j] = text[start + j]

\* C1 witness: a split into at least three overlapping chunks, the last one
\* clipped by the end of the text.
SplitCountWitness ==
    /\ SplitDone
    /\ ValidConfig(The(splitter))
    /\ The(splitter).chunk_overlap > 0
    /\ Len(The(chunks)) >= 3
    /\ Len(The(chunks)[Len(The(chunks))]) < The(splitter).chunk_size

\* C2: for every configuration the constructor accepts, stride <= chunk_size
\* and every character index of the text lies in the span
\* [k*stride, k*stride + chunk_size) of some returned chunk.
AcceptedConfigCovers ==
    SplitDone =>
        LET c == The(splitter)
            stride == c.chunk_size - c.chunk_overlap
            cs == The(chunks)
        IN  /\ stride <= c.chunk_size
            /\ \A idx \in 0..(Len(text) - 1) :
                   \E k \in 0..(Len(cs) - 1) :
                       k * stride <= idx /\ idx < k * stride + c.chunk_size

\* Chunks i and i+1 (from 0) of the last split share exactly chunk_overlap
\* characters: their spans meet in chunk_overlap indices and the tail of
\* chunk i is the head of chunk i+1.
ShareOverlap(i) ==
    LET ov == The(splitter).chunk_overlap
        a == The(chunks)[i + 1]
        b == The(chunks)[i + 2]
    IN  /\ Cardinality(Span(i) \cap Span(i + 1)) = ov
        /\ Len(a) >= ov
        /\ Len(b) >= ov
        /\ SubSeq(a, Len(a) - ov + 1, Len(a)) = SubSeq(b, 1, ov)

\* C3 as stated: whenever chunk i+1 exists and is not the last chunk, chunks
\* i and i+1 share exactly chunk_overlap characters.
ConsecutiveShareOverlapAlways ==
    (SplitDone /\ ValidConfig(The(splitter))) =>
        \A i \in 0..(Len(The(chunks)) - 3) : ShareOverlap(i)

\* C3 amended: the same, for the chunks i that are not clipped by the end of
\* the text (i*stride + chunk_size <= len(text)).
ConsecutiveShareOverlap ==
    (SplitDone /\ ValidConfig(The(splitter))) =>
        LET c == The(splitter)
            stride == c.chunk_size - c.chunk_overlap
        IN  \A i \in 0..(Len(The(chunks)) - 3) :
                (i * stride + c.chunk_size <= Len(text)) => ShareOverlap(i)

\* C3 witness: two full-size neighbours with a positive overlap and a chunk
\* after them, in a text whose characters are not all the same.
ConsecutiveShareWitness ==
    /\ SplitDone
    /\ ValidConfig(The(splitter))
    /\ The(splitter).chunk_overlap > 0
    /\ Len(The(chunks)) >= 3
    /\ The(splitter).chunk_size <= Len(text)
    /\ \E j \in 1..Len(text) : text[j] # text[1]

\* C4: a constructor call with chunk_overlap >= chunk_size raises and leaves
\* no splitter object; split is never reached with a stride <= 0.
RejectsOverlapNotBelowSize ==
    /\ (splitArgs # None /\ The(splitArgs).chunk_overlap >= The(splitArgs).chunk_size) =>
           /\ splitErr = "AssertionError"
           /\ splitter = None
           /\ chunks = None
    /\ (splitter # None) =>
           /\ The(splitter) = The(splitArgs)
           /\ The(splitter).chunk_size - The(splitter).chunk_overlap > 0
    /\ (chunks # None) => (splitter # None /\ splitErr = "none")

\* C4 witness: a rejected constructor call with chunk_size = chunk_overlap.
RejectsWitness ==
    /\ splitArgs # None
    /\ The(splitArgs).chunk_overlap = The(splitArgs).chunk_size
    /\ splitErr = "AssertionError"

\* ------------------------------------------------------------------------
\* Properties of TextFileLoader
\* ------------------------------------------------------------------------

\* The .txt files under the path.
TxtFiles(path) ==
    IF path.kind = "dir"
    THEN {x \in (1..Len(path.walk)) \X (1..MaxFiles) :
             x[2] <= Len(path.walk[x[1]]) /\ path.walk[x[1]][x[2]].ext = "txt"}
    ELSE IF path.kind = "file" /\ path.file.ext = "txt" THEN {<<0, 0>>}
    ELSE {}

\* C10: a load that raises leaves the loader's documents as they were when
\* it was entered; a load that succeeds holds one document per .txt file
\* under the path and none for other files.
FsNoPartialResults ==
    /\ (fsErr # "none") => (fsDocuments = fsBefore)
    /\ (fsCalls > 0 /\ fsErr = "none") =>
           /\ Len(fsDocuments) = Cardinality(TxtFiles(fsPath))
           /\ {fsDocuments[i] : i \in 1..Len(fsDocuments)} = TxtFiles(fsPath)

\* ------------------------------------------------------------------------
\* Properties of YouTubeLoader
\* ------------------------------------------------------------------------
Literals == {LitWatch, LitShort, LitEmbed, LitV}

\* No pattern matches anywhere in url: no literal prefix is followed by a
\* character an identifier can begin with.
NoIdentifier(url) ==
    \A p \in 1..Len(url), lit \in Literals :
        ~ /\ HasAt(url, p, lit)
          /\ p + Len(lit) <= Len(url)
          /\ url[p + Len(lit)] \notin Terminators

Fetches == {"fetch_en", "fetch_any"}
Issued(req) == \E i \in 1..Len(netCalls) : netCalls[i].req = req
Answered(req) == \E i \in 1..Len(netCalls) : netCalls[i] = Call(req, TRUE)
Refused(req) == \E i \in 1..Len(netCalls) : netCalls[i] = Call(req, FALSE)

\* C5: for a url no pattern matches, the constructor raises, there is no
\* loader object, no request is ever issued and no document is produced.
InvalidIdentifierNoNetwork ==
    (ytUrl # None /\ NoIdentifier(The(ytUrl))) =>
        /\ ytLoader = None
        /\ ytState = "Failed"
        /\ ytErr = <<"ValueError", "Could not extract video ID from URL">>
        /\ netCalls = <<>>
        /\ ytCalls = 0
        /\ ytReturned = None

\* C5 witness: a rejected url that holds a prefix literal with nothing an
\* identifier can begin with after it.
InvalidIdentifierWitness ==
    /\ ytUrl # None
    /\ NoIdentifier(The(ytUrl))
    /\ \E lit \in Literals : HasAt(The(ytUrl), 1, lit)
    /\ ytState = "Failed"

\* The title, author and provider of self.metadata are t, a and p.
MetadataIs(t, a, p) ==
    The(ytLoader).metadata =
        [type |-> "dict",
         items |-> {<<"title", t>>, <<"author_name", a>>, <<"provider_name", p>>}]

\* The load in progress has added one document: it shows title t and author
\* a and ends with the whole transcript.
OneDocumentWith(t, a) ==
    LET docs == The(ytLoader).documents
        doc == docs[Len(docs)]
    IN  /\ Len(docs) = Len(ytBefore) + 1
        /\ SubSeq(docs, 1, Len(ytBefore)) = ytBefore
        /\ Len(doc) >= Len(ytTranscript) + 4
        /\ SubSeq(doc, Len(doc) - Len(ytTranscript) + 1, Len(doc)) = ytTranscript
        /\ doc[2] = t
        /\ doc[4] = a

\* The metadata request of this load raised and its transcript was fetched.
MetadataFailedOnly ==
    /\ ytLoader # None
    /\ Refused("oembed")
    /\ ~Refused("fetch_any")

TranscriptUnavailableFails ==
    (ytLoader # None /\ Refused("fetch_en") /\ Refused("fetch_any")) =>
        /\ ytState = "Failed"
        /\ ytErr = <<"ValueError", "Failed to load YouTube video",
                     "Could not retrieve transcript for video">>
        /\ The(ytLoader).documents = ytBefore
        /\ ytReturned = None

\* C7 witness: both fetches failed in a load_documents call on a loader that
\* already holds a document.
TranscriptUnavailableWitness ==
    /\ ytLoader # None
    /\ Refused("fetch_en")
    /\ Refused("fetch_any")
    /\ ytEntry = "load_documents"
    /\ ytBefore # <<>>

\* C8: after any sequence of calls, a load that succeeded leaves exactly one
\* document and load_documents returns exactly one.
OneDocumentPerLoad ==
    /\ (ytLoader # None /\ ytState = "Assembled") => Len(The(ytLoader).documents) = 1
    /\ (ytReturned # None) => Len(The(ytReturned)) = 1

\* What holds of every load whatever the order of its requests: without
\* include_metadata no metadata request is issued, a failed load adds no
\* document and a finished one adds one.
LoadOutcome ==
    (ytLoader # None) =>
        /\ ~The(ytLoader).include_metadata => ~Issued("oembed")
        /\ (ytState = "Failed") => (The(ytLoader).documents = ytBefore)
        /\ (ytState = "Assembled") =>
               /\ Len(The(ytLoader).documents) = Len(ytBefore) + 1
               /\ Answered("fetch_en") \/ Answered("fetch_any")
               /\ The(ytLoader).include_metadata <=> Issued("oembed")

\* C9 as stated: with include_metadata the metadata request is issued before
\* the first transcript fetch.
MetadataBeforeTranscript ==
    /\ LoadOutcome
    /\ (ytLoader # None /\ The(ytLoader).include_metadata) =>
           \A i \in 1..Len(netCalls) :
               (netCalls[i].req \in Fetches) =>
                   \E j \in 1..(i - 1) : netCalls[j].req = "oembed"

\* C9 amended: the transcript fetches come first; the metadata request is
\* issued once, after a transcript fetch was answered, so a load whose
\* fetches both fail issues none; each position of the load has seen exactly
\* the requests of the steps before it.
TranscriptBeforeMetadata ==
    /\ LoadOutcome
    /\ (ytState = "Uninitialized") => (ytLoader = None /\ netCalls = <<>>)
    /\ (ytLoader # None) =>
           /\ \A i \in 1..Len(netCalls) :
                  (netCalls[i].req = "oembed") =>
                      /\ i = Len(netCalls)
                      /\ \E j \in 1..(i - 1) :
                             netCalls[j].req \in Fetches /\ netCalls[j].ok
           /\ (ytState = "IdentifierExtracted") => (netCalls = <<>>)
           /\ (ytState = "GetTranscript") => (netCalls = <<>>)
           /\ (ytState = "GetMetadata") =>
                  /\ Answered("fetch_en") \/ Answered("fetch_any")
                  /\ ~Issued("oembed")
           /\ (ytState = "Assemble") =>
                  /\ Answered("fetch_en") \/ Answered("fetch_any")
                  /\ The(ytLoader).include_metadata <=> Issued("oembed")
           /\ (Refused("fetch_any")) => (ytState = "Failed" /\ ~Issued("oembed"))

\* C9 witness: a load with include_metadata that failed on its transcript.
TranscriptBeforeMetadataWitness ==
    /\ ytLoader # None
    /\ The(ytLoader).include_metadata
    /\ ytState = "Failed"
    /\ Refused("fetch_any")

====
